---- MODULE Spec2Model ----
(***************************************************************************)
(* A model of the gossip node of src/src/gossip.rs: the membership table   *)
(* (Storage), the datagram channel (UdapChannel), the Emitter loop         *)
(* (periodic_heartbeat) and the Forwarder loop (gossip), for a small       *)
(* cluster of nodes that share one wall clock, as the in-process harness   *)
(* of src/src/main.rs runs them.                                           *)
(*                                                                         *)
(* Every step of a loop is one critical section of the code (one lock      *)
(* acquisition with the local computation that follows it).                *)
(*                                                                         *)
(* Result values: Storage::insert is declared to return Result<u64, _>;    *)
(* Ok(0) is written <<0>> and the Ok(()) of gossip.rs:167 is written <<>>. *)
(***************************************************************************)
EXTENDS Integers, Sequences, FiniteSets, TLC

\* ---------------------------------------------------------------- bounds
MaxTime == 1          \* the wall clock runs over 0..MaxTime seconds
MaxEmit == 2          \* Emitter iterations explored, over all nodes
MaxCount == 2         \* largest received_count a receive may lead to
MaxInFlight == 2      \* datagrams in flight at one time
HeartbeatSpread == 1  \* heartbeat_spread handed to Node::new
HeartbeatInterval == 1 \* heartbeat_interval handed to Node::new, in seconds
NodeGeneration == 0   \* generation handed to Node::new
HealthyThresholdSecs == 1 \* HEALTHY_THRESHOLD_SECS of main.rs, for a clock of MaxTime seconds
NumberNodesToKill == 1 \* NUMBER_NODES_TO_KILL of main.rs, for a cluster of two
MaxSpread == 2        \* largest n handed to select_n_random_addresses on its own
MaxBatch == 4         \* longest address list handed to UdapChannel::send on its own

\* ---------------------------------------------------------- configuration
Nodes == {"a", "b"}

\* the nodes whose loops are followed step by step
Local == {"a"}

Addr == [a |-> ":9001", b |-> ":9002"]

\* seed_node_addresses of each node: each lists the other (spec S1)
Seeds == [a |-> <<":9002">>, b |-> <<":9001">>]

Range(s) == {s[i] : i \in DOMAIN s}

Max(x, y) == IF x < y THEN y ELSE x

VARIABLES
  now,        \* the wall clock, in whole seconds
  table,      \* table[n]: Storage.data of node n, a map key -> NodeHeartbeatData
  net,        \* datagrams in flight: <<destination address, heartbeat>>; one that
              \* is never delivered (again) is lost
  version,    \* version[n]: the Emitter's local counter
  epc,        \* epc[n]: position of node n's Emitter loop
  ehb,        \* ehb[n]: the Emitter's local heartbeat
  eaddrs,     \* eaddrs[n]: the Emitter's local addresses
  ewake,      \* ewake[n]: the second at which the Emitter's sleep ends
  fpc,        \* fpc[n]: position of node n's Forwarder loop
  fhb,        \* fhb[n]: the Forwarder's local heartbeat
  faddrs,     \* faddrs[n]: the Forwarder's local addresses
  lastInsert, \* history: the table merge of the last step, if it made one
  maxInserted, \* history: maxInserted[n][id], largest timestamp merged for id, or -1
  tlock,      \* tlock[n]: the threads holding the Mutex of node n's table
  clock,      \* clock[n]: the threads holding the Mutex of node n's socket
  cs,         \* cs[n][t]: thread t is "out" of a critical section, "in" one
              \* with its lock taken, or "done" with it and about to unlock
  hsnap,      \* hsnap[n]: the clone the harness holds of node n's table while it
              \* still has the lock, if any
  is_alive,   \* is_alive[n]: the flag main keeps for node n
  cpc,        \* where main's cancellation thread is
  junk,       \* junk[n]: a datagram that is no heartbeat waits on n's socket
  lastRecv,   \* history: the failed channel.receive of the last step, if any
  lastSend,   \* history: the channel.send of the last step, if it made one
  metrics,    \* history: the calculate_metrics of the last step, if it made one
  lastSelect  \* history: the select_n_random_addresses called on its own in the
              \* last step, if any

vars == <<now, table, net, version, epc, ehb, eaddrs, ewake,
          fpc, fhb, faddrs, lastInsert, maxInserted,
          tlock, clock, cs, hsnap, is_alive, cpc, junk, lastRecv, lastSend,
          metrics, lastSelect>>

\* the threads that touch a node: its two loops and the harness of main.rs
Threads == {"emitter", "forwarder", "harness"}

\* the end of thread t's critical section on node n, if it is in one
Leave(n, t) ==
  [cs EXCEPT ![n][t] = IF @ = "in" THEN "done" ELSE @]

\* ------------------------------------------------------------- data model
now_unix == now

Heartbeat(id, address, generation, ver, timestamp) ==
  [id |-> id, address |-> address, generation |-> generation,
   version |-> ver, timestamp |-> timestamp]

\* Heartbeat::default(): empty id and address, timestamp = the clock
DefaultHeartbeat ==
  Heartbeat("", "", 0, 0, now_unix)

NodeHeartbeatData(h, c) == [heartbeat |-> h, received_count |-> c]

\* HashMap::insert(k, v): add or overwrite
MapInsert(m, k, v) ==
  [x \in (DOMAIN m) \cup {k} |-> IF x = k THEN v ELSE m[x]]

\* Node::new: the table after the seed loop and the node's own insert
RECURSIVE AddSeeds(_, _, _)
AddSeeds(m, seeds, i) ==
  IF i > Len(seeds) THEN m
  ELSE AddSeeds(
         MapInsert(m, seeds[i],
                   NodeHeartbeatData([DefaultHeartbeat EXCEPT !.address = seeds[i]], 0)),
         seeds, i + 1)

EmptyMap == [x \in {} |-> 0]

NodeNew(id, address, seed_node_addresses) ==
  MapInsert(AddSeeds(EmptyMap, seed_node_addresses, 1),
            id,
            NodeHeartbeatData(
              [DefaultHeartbeat EXCEPT !.id = id, !.address = address], 0))

\* an insert that takes the entry of a known id out of the map
insert_evict(data, heartbeat) ==
  IF heartbeat.id \notin DOMAIN data
  THEN [data |-> MapInsert(data, heartbeat.id, NodeHeartbeatData(heartbeat, 0)),
        ret |-> <<0>>]
  ELSE [data |-> [k \in DOMAIN data \ {heartbeat.id} |-> data[k]], ret |-> <<>>]

\* ------------------------------------------------------------------ Storage
\* Storage::insert, gossip.rs:122-168, as written.  An absent id is inserted
\* and Ok(0) returned; `k` and `v` are read as the key and value of the
\* commented-out insert right below (gossip.rs:135-142): heartbeat.id and
\* NodeHeartbeatData { heartbeat, received_count: 0 }.  For a present id the
\* comparison of gossip.rs:131-133 has an empty body, the table is left as it
\* is and Ok(()) is returned.
insert(data, heartbeat) ==
  IF heartbeat.id \notin DOMAIN data
  THEN [data |-> MapInsert(data, heartbeat.id, NodeHeartbeatData(heartbeat, 0)),
        ret |-> <<0>>]
  ELSE [data |-> data, ret |-> <<>>]

\* a merge that adopts whatever arrives, whatever its timestamp
upsert_overwrite(data, h) ==
  [data |-> MapInsert(data, h.id, NodeHeartbeatData(h, 1)), ret |-> 1]

\* Storage::upsert, called at gossip.rs:363 and defined nowhere in the source:
\* the merge of spec 4.1, which the Forwarder runs on every received heartbeat
\* (spec 4.4 step 3).  It returns the count itself, as its call site uses it.
upsert(data, h) ==
  IF h.id \notin DOMAIN data
  THEN [data |-> MapInsert(data, h.id, NodeHeartbeatData(h, 1)), ret |-> 1]
  ELSE LET cur == data[h.id] IN
       IF h.timestamp > cur.heartbeat.timestamp
       THEN [data |-> MapInsert(data, h.id, NodeHeartbeatData(h, 1)), ret |-> 1]
       ELSE [data |-> MapInsert(data, h.id,
                        NodeHeartbeatData(cur.heartbeat, cur.received_count + 1)),
             ret |-> cur.received_count + 1]

\* the results rng-driven shuffle can give: every order of a
Shuffles(a) ==
  LET L == Len(a)
      Perms == {p \in [1..L -> 1..L] : \A i, j \in 1..L : i # j => p[i] # p[j]}
  IN {[i \in 1..L |-> a[p[i]]] : p \in Perms}

\* a selection that forgets to cut the shuffled list to n
select_random_all_strings(a, n) == Shuffles(a)

\* select_random_n_strings: shuffle, then the whole list if it is shorter than
\* n, else its first n elements.  The set of results the rng can produce.
select_random_n_strings(a, n) ==
  {IF Len(s) < n THEN s ELSE SubSeq(s, 1, n) : s \in Shuffles(a)}

\* the HashMap's iteration order: some enumeration of its keys
KeySeq(data) ==
  CHOOSE f \in [1..Cardinality(DOMAIN data) -> DOMAIN data] :
    \A i, j \in DOMAIN f : i # j => f[i] # f[j]

\* Storage::select_n_random_addresses: the address of every entry, then
\* select_random_n_strings
select_n_random_addresses(data, n) ==
  LET keys == KeySeq(data)
      addresses == [i \in 1..Len(keys) |-> data[keys[i]].heartbeat.address]
  IN select_random_n_strings(addresses, n)

\* should_forward: rng.gen::<f64>() in [0,1) < 1.0 * exp(-0.3 * n).  For n = 0
\* the probability is 1.0 and the draw is always below it; for the n >= 1 of
\* this model it lies strictly between 0 and 1 and both outcomes occur.
should_forward(n_times_received) ==
  IF n_times_received = 0 THEN {TRUE} ELSE {TRUE, FALSE}

\* -------------------------------------------------------------- UdapChannel
\* UdapChannel::send: send_to each address in order; the first failure returns
\* Err through `?` and leaves the rest unsent.  The outcomes: how many
\* datagrams left, and whether the call returned Ok.
send(heartbeat, target_addresses) ==
  {[sent |-> Len(target_addresses), ok |-> TRUE]}
    \cup {[sent |-> i - 1, ok |-> FALSE] : i \in 1..Len(target_addresses)}

\* a send that skips the address that failed and goes on with the rest
DatagramsPastFailure(heartbeat, target_addresses, sent) ==
  {<<target_addresses[i], heartbeat>> : i \in (1..Len(target_addresses)) \ {sent + 1}}

\* the datagrams of a send that got `sent` of them out: send_to ran for the
\* first `sent` addresses of the list
Datagrams(heartbeat, target_addresses, sent) ==
  {<<target_addresses[i], heartbeat>> : i \in 1..sent}

\* UdapChannel::receive on node n's socket: the datagrams it can return
receive(n) == {d \in net : d[1] = Addr[n]}

\* --------------------------------------------------------------------- Init
NoHeartbeat == Heartbeat("", "", 0, 0, 0)

\* lastInsert describes the step that led to the state: the merge it
\* performed, none otherwise
NoInsert ==
  [node |-> "a", by |-> "none", h |-> NoHeartbeat,
   pre |-> {}, post |-> {}, ret |-> <<>>]

NoSelect == [by |-> "none", node |-> "a", n |-> 0, addresses |-> <<>>]

NoMetrics ==
  [by |-> "none", at |-> 0, snapshots |-> <<>>, latest |-> <<>>, n_fully_informed |-> 0]

NoSend == [by |-> "none", targets |-> <<>>, sent |-> 0, ok |-> TRUE]

Init ==
  /\ now = 0
  /\ table = [n \in Nodes |-> NodeNew(n, Addr[n], Seeds[n])]
  /\ net = {}
  /\ version = [n \in Nodes |-> 0]
  /\ epc = [n \in Nodes |-> "insert"]
  /\ ehb = [n \in Nodes |-> NoHeartbeat]
  /\ eaddrs = [n \in Nodes |-> <<>>]
  /\ ewake = [n \in Nodes |-> 0]
  /\ fpc = [n \in Nodes |-> "receive"]
  /\ fhb = [n \in Nodes |-> NoHeartbeat]
  /\ faddrs = [n \in Nodes |-> <<>>]
  /\ lastInsert = NoInsert
  /\ maxInserted = [n \in Nodes |-> [id \in Nodes |-> -1]]
  /\ tlock = [n \in Nodes |-> {}]
  /\ clock = [n \in Nodes |-> {}]
  /\ cs = [n \in Nodes |-> [t \in Threads |-> "out"]]
  /\ hsnap = [n \in Nodes |-> {}]
  /\ is_alive = [n \in Nodes |-> TRUE]
  /\ cpc = "kill"
  /\ junk = [n \in Nodes |-> FALSE]
  /\ lastRecv = "none"
  /\ lastSend = NoSend
  /\ metrics = NoMetrics
  /\ lastSelect = NoSelect

\* the history of one merge: the entry before it, the entry after it, the
\* result in Ok(..) form
Merged(n, by, h, before, after, ret) ==
  [node |-> n, by |-> by, h |-> h,
   pre |-> IF h.id \in DOMAIN before THEN {before[h.id]} ELSE {},
   post |-> IF h.id \in DOMAIN after THEN {after[h.id]} ELSE {},
   ret |-> ret]

NoteInserted(n, h) ==
  [maxInserted EXCEPT ![n][h.id] = Max(@, h.timestamp)]

\* ------------------------------------------- Emitter: periodic_heartbeat
RECURSIVE SumOver(_, _)
SumOver(f, S) ==
  IF S = {} THEN 0
  ELSE LET x == CHOOSE y \in S : TRUE IN f[x] + SumOver(f, S \ {x})

\* Emitter iterations started so far
Emitted == SumOver(version, Nodes)


\* gossip.rs:314-329: version += 1, build the heartbeat, storage.insert.  (The
\* Err arm needs a poisoned lock, which no path of the code produces.)
EmitterInsert(n) ==
  /\ epc[n] = "insert"
  /\ Emitted < MaxEmit
  /\ LET h == Heartbeat(n, Addr[n], NodeGeneration, version[n] + 1, now_unix)
         r == insert(table[n], h)
     IN /\ version' = [version EXCEPT ![n] = @ + 1]
        /\ ehb' = [ehb EXCEPT ![n] = h]
        /\ table' = [table EXCEPT ![n] = r.data]
        /\ lastInsert' = Merged(n, "emitter", h, table[n], r.data, r.ret)
        /\ maxInserted' = NoteInserted(n, h)
  /\ epc' = [epc EXCEPT ![n] = "select"]
  /\ UNCHANGED <<now, net, eaddrs, ewake, fpc, fhb, faddrs>>
  /\ cs' = Leave(n, "emitter")
  /\ lastRecv' = "none"
  /\ lastSend' = NoSend
  /\ metrics' = NoMetrics
  /\ lastSelect' = NoSelect
  /\ UNCHANGED <<tlock, clock, hsnap, is_alive, cpc, junk>>

\* gossip.rs:331-337: storage.select_n_random_addresses(heartbeat_spread)
EmitterSelect(n) ==
  /\ epc[n] = "select"
  /\ \E addresses \in select_n_random_addresses(table[n], HeartbeatSpread) :
       eaddrs' = [eaddrs EXCEPT ![n] = addresses]
  /\ epc' = [epc EXCEPT ![n] = "send"]
  /\ lastInsert' = NoInsert
  /\ UNCHANGED <<now, table, net, version, ehb, ewake, fpc, fhb, faddrs, maxInserted>>
  /\ cs' = Leave(n, "emitter")
  /\ lastRecv' = "none"
  /\ lastSend' = NoSend
  /\ metrics' = NoMetrics
  /\ lastSelect' = NoSelect
  /\ UNCHANGED <<tlock, clock, hsnap, is_alive, cpc, junk>>

\* gossip.rs:339-342: channel.send; Ok goes to sleep, Err loops at once.  The
\* locals heartbeat and addresses end with the iteration.
EmitterSend(n) ==
  /\ epc[n] = "send"
  /\ \E o \in send(ehb[n], eaddrs[n]) :
       /\ net' = net \cup Datagrams(ehb[n], eaddrs[n], o.sent)
       /\ Cardinality(net') <= MaxInFlight
       /\ epc' = [epc EXCEPT ![n] = IF o.ok THEN "sleep" ELSE "insert"]
       /\ ewake' = [ewake EXCEPT ![n] = IF o.ok THEN now + HeartbeatInterval ELSE 0]
  /\ ehb' = [ehb EXCEPT ![n] = NoHeartbeat]
  /\ eaddrs' = [eaddrs EXCEPT ![n] = <<>>]
  /\ lastInsert' = NoInsert
  /\ UNCHANGED <<now, table, version, fpc, fhb, faddrs, maxInserted>>
  /\ cs' = Leave(n, "emitter")
  /\ lastRecv' = "none"
  /\ lastSend' = NoSend
  /\ metrics' = NoMetrics
  /\ lastSelect' = NoSelect
  /\ UNCHANGED <<tlock, clock, hsnap, is_alive, cpc, junk>>

\* gossip.rs:340: thread::sleep(heartbeat_interval_secs) returns
EmitterWake(n) ==
  /\ epc[n] = "sleep"
  /\ now >= ewake[n]
  /\ epc' = [epc EXCEPT ![n] = "insert"]
  /\ ewake' = [ewake EXCEPT ![n] = 0]
  /\ lastInsert' = NoInsert
  /\ UNCHANGED <<now, table, net, version, ehb, eaddrs, fpc, fhb, faddrs, maxInserted>>
  /\ UNCHANGED cs
  /\ lastRecv' = "none"
  /\ lastSend' = NoSend
  /\ metrics' = NoMetrics
  /\ lastSelect' = NoSelect
  /\ UNCHANGED <<tlock, clock, hsnap, is_alive, cpc, junk>>

\* --------------------------------------------------------- Forwarder: gossip
\* gossip.rs:353-361: sleep, then channel.receive returns a heartbeat.  The
\* network may deliver the datagram again later (it stays in flight) or not.
\* WouldBlock and the error arms go back to the top and change nothing.
ForwarderReceive(n) ==
  /\ fpc[n] = "receive"
  /\ \E d \in receive(n) :
       /\ upsert(table[n], d[2]).ret <= MaxCount
       /\ fhb' = [fhb EXCEPT ![n] = d[2]]
       /\ net' \in {net \ {d}, net}
  /\ fpc' = [fpc EXCEPT ![n] = "upsert"]
  /\ lastInsert' = NoInsert
  /\ UNCHANGED <<now, table, version, epc, ehb, eaddrs, ewake, faddrs, maxInserted>>
  /\ cs' = Leave(n, "forwarder")
  /\ lastRecv' = "none"
  /\ lastSend' = NoSend
  /\ metrics' = NoMetrics
  /\ lastSelect' = NoSelect
  /\ UNCHANGED <<tlock, clock, hsnap, is_alive, cpc, junk>>

\* gossip.rs:363-366: storage.upsert, then should_forward(n_times_received);
\* `continue` ends the iteration and its locals
ForwarderUpsert(n) ==
  /\ fpc[n] = "upsert"
  /\ LET r == upsert(table[n], fhb[n])
         n_times_received == r.ret
     IN /\ table' = [table EXCEPT ![n] = r.data]
        /\ lastInsert' = Merged(n, "forwarder", fhb[n], table[n], r.data, <<r.ret>>)
        /\ maxInserted' = NoteInserted(n, fhb[n])
        /\ \E forward \in should_forward(n_times_received) :
             /\ fpc' = [fpc EXCEPT ![n] = IF forward THEN "select" ELSE "receive"]
             /\ fhb' = [fhb EXCEPT ![n] = IF forward THEN @ ELSE NoHeartbeat]
  /\ UNCHANGED <<now, net, version, epc, ehb, eaddrs, ewake, faddrs>>
  /\ cs' = Leave(n, "forwarder")
  /\ lastRecv' = "none"
  /\ lastSend' = NoSend
  /\ metrics' = NoMetrics
  /\ lastSelect' = NoSelect
  /\ UNCHANGED <<tlock, clock, hsnap, is_alive, cpc, junk>>

\* gossip.rs:368-374: storage.select_n_random_addresses(heartbeat_spread)
ForwarderSelect(n) ==
  /\ fpc[n] = "select"
  /\ \E addresses \in select_n_random_addresses(table[n], HeartbeatSpread) :
       faddrs' = [faddrs EXCEPT ![n] = addresses]
  /\ fpc' = [fpc EXCEPT ![n] = "send"]
  /\ lastInsert' = NoInsert
  /\ UNCHANGED <<now, table, net, version, epc, ehb, eaddrs, ewake, fhb, maxInserted>>
  /\ cs' = Leave(n, "forwarder")
  /\ lastRecv' = "none"
  /\ lastSend' = NoSend
  /\ metrics' = NoMetrics
  /\ lastSelect' = NoSelect
  /\ UNCHANGED <<tlock, clock, hsnap, is_alive, cpc, junk>>

\* gossip.rs:376-379: channel.send; either result goes back to the top
ForwarderSend(n) ==
  /\ fpc[n] = "send"
  /\ \E o \in send(fhb[n], faddrs[n]) :
       /\ net' = net \cup Datagrams(fhb[n], faddrs[n], o.sent)
       /\ Cardinality(net') <= MaxInFlight
  /\ fpc' = [fpc EXCEPT ![n] = "receive"]
  /\ fhb' = [fhb EXCEPT ![n] = NoHeartbeat]
  /\ faddrs' = [faddrs EXCEPT ![n] = <<>>]
  /\ lastInsert' = NoInsert
  /\ UNCHANGED <<now, table, version, epc, ehb, eaddrs, ewake, maxInserted>>
  /\ cs' = Leave(n, "forwarder")
  /\ lastRecv' = "none"
  /\ lastSend' = NoSend
  /\ metrics' = NoMetrics
  /\ lastSelect' = NoSelect
  /\ UNCHANGED <<tlock, clock, hsnap, is_alive, cpc, junk>>

\* -------------------------------------------------------------- environment
\* a second of wall-clock time passes
Tick ==
  /\ now < MaxTime
  /\ now' = now + 1
  /\ lastInsert' = NoInsert
  /\ UNCHANGED <<table, net, version, epc, ehb, eaddrs, ewake, fpc, fhb, faddrs,
                 maxInserted>>
  /\ UNCHANGED cs
  /\ lastRecv' = "none"
  /\ lastSend' = NoSend
  /\ metrics' = NoMetrics
  /\ lastSelect' = NoSelect
  /\ UNCHANGED <<tlock, clock, hsnap, is_alive, cpc, junk>>

\* ----------------------------------------------------- peers of the nodes
\* The nodes of Local run the code above step by step.  A peer outside Local
\* is seen through the datagrams it exchanges with them.

\* periodic_heartbeat on peer p, gossip.rs:314-339: p builds its heartbeat at
\* the current second and a copy is sent to the address of a local node
PeerEmit(p) ==
  /\ Emitted < MaxEmit
  /\ version' = [version EXCEPT ![p] = @ + 1]
  /\ \E l \in Local :
       net' = net \cup
                {<<Addr[l], Heartbeat(p, Addr[p], NodeGeneration, version[p] + 1, now_unix)>>}
  /\ Cardinality(net') <= MaxInFlight
  /\ lastInsert' = NoInsert
  /\ UNCHANGED <<now, table, epc, ehb, eaddrs, ewake, fpc, fhb, faddrs, maxInserted>>
  /\ UNCHANGED cs
  /\ lastRecv' = "none"
  /\ lastSend' = NoSend
  /\ metrics' = NoMetrics
  /\ lastSelect' = NoSelect
  /\ UNCHANGED <<tlock, clock, hsnap, is_alive, cpc, junk>>

\* gossip on peer p, gossip.rs:354-379: p receives a datagram sent to its
\* address and forwards the heartbeat to the address of a local node
PeerForward(p) ==
  /\ \E d \in receive(p) : \E l \in Local :
       net' = (net \ {d}) \cup {<<Addr[l], d[2]>>}
  /\ lastInsert' = NoInsert
  /\ UNCHANGED <<now, table, version, epc, ehb, eaddrs, ewake, fpc, fhb, faddrs,
                 maxInserted>>
  /\ UNCHANGED cs
  /\ lastRecv' = "none"
  /\ lastSend' = NoSend
  /\ metrics' = NoMetrics
  /\ lastSelect' = NoSelect
  /\ UNCHANGED <<tlock, clock, hsnap, is_alive, cpc, junk>>

\* one node running the code, its peers and the network around it
Next ==
  \/ \E n \in Local : EmitterInsert(n)
  \/ \E n \in Local : EmitterSelect(n)
  \/ \E n \in Local : EmitterSend(n)
  \/ \E n \in Local : EmitterWake(n)
  \/ \E n \in Local : ForwarderReceive(n)
  \/ \E n \in Local : ForwarderUpsert(n)
  \/ \E n \in Local : ForwarderSelect(n)
  \/ \E n \in Local : ForwarderSend(n)
  \/ \E p \in Nodes \ Local : PeerEmit(p)
  \/ \E p \in Nodes \ Local : PeerForward(p)
  \/ Tick

Spec == Init /\ [][Next]_vars

\* ------------------------------------------------- Storage, call by call
\* insert called on node n's Storage with any heartbeat a caller can build
InsertInputs ==
  {Heartbeat(id, ad, NodeGeneration, v, t) :
     id \in Nodes, ad \in Range(Addr), v \in 0..MaxEmit, t \in 0..MaxTime}

StorageInsert(n) ==
  /\ \E h \in InsertInputs :
       LET r == insert(table[n], h)
       IN /\ table' = [table EXCEPT ![n] = r.data]
          /\ lastInsert' = Merged(n, "caller", h, table[n], r.data, r.ret)
          /\ maxInserted' = NoteInserted(n, h)
  /\ UNCHANGED <<now, net, version, epc, ehb, eaddrs, ewake, fpc, fhb, faddrs>>
  /\ UNCHANGED cs
  /\ lastRecv' = "none"
  /\ lastSend' = NoSend
  /\ metrics' = NoMetrics
  /\ lastSelect' = NoSelect
  /\ UNCHANGED <<tlock, clock, hsnap, is_alive, cpc, junk>>

StorageNext == \E n \in Local : StorageInsert(n)

SpecStorage == Init /\ [][StorageNext]_vars

\* --------------------------------------------- UdapChannel, call by call
\* the address lists a caller can hand to send
RECURSIVE SeqsUpTo(_, _)
SeqsUpTo(S, k) ==
  IF k = 0 THEN {<<>>}
  ELSE LET shorter == SeqsUpTo(S, k - 1)
       IN shorter \cup {Append(q, x) : q \in shorter, x \in S}

SendInputs == SeqsUpTo(Range(Addr), MaxBatch)

\* the heartbeats of the nodes' first Emitter iteration, gossip.rs:314-322
SendHeartbeats == {Heartbeat(n, Addr[n], NodeGeneration, 1, now_unix) : n \in Nodes}

\* send called with a heartbeat and any list of addresses, on a network
\* that holds nothing else
ChannelSend ==
  /\ \E h \in SendHeartbeats : \E target_addresses \in SendInputs :
       \E o \in send(h, target_addresses) :
         /\ net' = Datagrams(h, target_addresses, o.sent)
         /\ lastSend' = [by |-> "caller", targets |-> target_addresses,
                         sent |-> o.sent, ok |-> o.ok]
  /\ lastInsert' = NoInsert
  /\ lastRecv' = "none"
  /\ metrics' = NoMetrics
  /\ lastSelect' = NoSelect
  /\ UNCHANGED <<now, table, version, epc, ehb, eaddrs, ewake, fpc, fhb, faddrs,
                 maxInserted, tlock, clock, cs, hsnap, is_alive, cpc, junk>>

SpecChannel == Init /\ [][ChannelSend]_vars

\* ------------------------------------------------ two nodes, both running
\* nodes a and b each run periodic_heartbeat and gossip; the only datagrams
\* are the ones they send
ClusterNext ==
  \/ \E n \in Nodes : EmitterInsert(n)
  \/ \E n \in Nodes : EmitterSelect(n)
  \/ \E n \in Nodes : EmitterSend(n)
  \/ \E n \in Nodes : EmitterWake(n)
  \/ \E n \in Nodes : ForwarderReceive(n)
  \/ \E n \in Nodes : ForwarderUpsert(n)
  \/ \E n \in Nodes : ForwarderSelect(n)
  \/ \E n \in Nodes : ForwarderSend(n)
  \/ Tick

SpecCluster == Init /\ [][ClusterNext]_vars

\* ------------------------------------------- main's cancellation thread
\* main.rs:75-87: after KILL_NODES_AFTER_N_SECS the flags of
\* NUMBER_NODES_TO_KILL nodes drawn at random are set to false
KillNodes ==
  /\ cpc = "kill"
  /\ \E killed \in {S \in SUBSET Nodes : Cardinality(S) = NumberNodesToKill} :
       is_alive' = [n \in Nodes |-> IF n \in killed THEN FALSE ELSE is_alive[n]]
  /\ cpc' = "start"
  /\ lastInsert' = NoInsert
  /\ lastRecv' = "none"
  /\ lastSend' = NoSend
  /\ metrics' = NoMetrics
  /\ lastSelect' = NoSelect
  /\ UNCHANGED <<now, table, net, version, epc, ehb, eaddrs, ewake, fpc, fhb, faddrs,
                 maxInserted, tlock, clock, cs, hsnap, junk>>

\* main.rs:90-99: START_ALL_NODES_AFTER_N_SECS later every flag is set to true
StartAllNodes ==
  /\ cpc = "start"
  /\ is_alive' = [n \in Nodes |-> TRUE]
  /\ cpc' = "done"
  /\ lastInsert' = NoInsert
  /\ lastRecv' = "none"
  /\ lastSend' = NoSend
  /\ metrics' = NoMetrics
  /\ lastSelect' = NoSelect
  /\ UNCHANGED <<now, table, net, version, epc, ehb, eaddrs, ewake, fpc, fhb, faddrs,
                 maxInserted, tlock, clock, cs, hsnap, junk>>

\* the node, its peers and main's cancellation thread
HarnessNext ==
  \/ Next
  \/ KillNodes
  \/ StartAllNodes

SpecHarness == Init /\ [][HarnessNext]_vars

\* ------------------------------------------------- main's metrics thread
\* number_nodes handed to calculate_metrics: NUMBER_NODES, main.rs:109
NumberNodes == Cardinality(Nodes)

\* main.rs:214-225: the entries of a snapshot for which
\* now_unix() - heartbeat.timestamp < healthy_threshold_secs
with_latest(storage_snapshot) ==
  {k \in DOMAIN storage_snapshot :
     now_unix - storage_snapshot[k].heartbeat.timestamp < HealthyThresholdSecs}

nr_with_latest(storage_snapshot) == Cardinality(with_latest(storage_snapshot))

\* main.rs:196-231: n_fully_informed, one more for every snapshot whose
\* nr_with_latest equals number_nodes
calculate_metrics(storages) ==
  Cardinality({n \in DOMAIN storages : nr_with_latest(storages[n]) = NumberNodes})

\* the metrics thread runs calculate_metrics over the tables of the nodes it
\* follows, cloning each one under its lock
CalculateMetrics ==
  /\ LET storages == [n \in Local |-> table[n]]
     IN metrics' = [by |-> "harness", at |-> now_unix, snapshots |-> storages,
                    latest |-> [n \in Local |-> with_latest(storages[n])],
                    n_fully_informed |-> calculate_metrics(storages)]
  /\ lastInsert' = NoInsert
  /\ lastSelect' = NoSelect
  /\ lastRecv' = "none"
  /\ lastSend' = NoSend
  /\ UNCHANGED <<now, table, net, version, epc, ehb, eaddrs, ewake, fpc, fhb, faddrs,
                 maxInserted, tlock, clock, cs, hsnap, is_alive, cpc, junk>>

\* the node, its peers and main's metrics thread
MetricsNext ==
  \/ Next
  \/ CalculateMetrics

SpecMetrics == Init /\ [][MetricsNext]_vars

\* --------------------------------------- the selection, call by call
\* select_n_random_addresses called on node n's Storage, as both loops call
\* it, with any n up to MaxSpread
StorageSelect(n) ==
  /\ \E k \in 0..MaxSpread : \E addresses \in select_n_random_addresses(table[n], k) :
       lastSelect' = [by |-> "caller", node |-> n, n |-> k, addresses |-> addresses]
  /\ lastInsert' = NoInsert
  /\ lastRecv' = "none"
  /\ lastSend' = NoSend
  /\ metrics' = NoMetrics
  /\ UNCHANGED <<now, table, net, version, epc, ehb, eaddrs, ewake, fpc, fhb, faddrs,
                 maxInserted, tlock, clock, cs, hsnap, is_alive, cpc, junk>>

\* the node and its peers, with the selection called at any moment
SelectNext ==
  \/ Next
  \/ \E n \in Local : StorageSelect(n)

SpecSelect == Init /\ [][SelectNext]_vars

\* ------------------------------------------------- the locks, step by step
\* Every Storage method takes self.data.lock() on entry and the guard ends
\* with the method (gossip.rs:101, 113, 123); receive and send do the same
\* with self.socket.lock() (gossip.rs:178, 186).  Here a thread takes the
\* Mutex in one step, runs the method in the next and drops the guard in a
\* third, so other threads can be scheduled in between.

Quiet ==
  /\ lastInsert' = NoInsert
  /\ lastRecv' = "none"
  /\ lastSend' = NoSend
  /\ metrics' = NoMetrics
  /\ lastSelect' = NoSelect
  /\ UNCHANGED <<now, table, net, version, epc, ehb, eaddrs, ewake,
                 fpc, fhb, faddrs, maxInserted, is_alive, cpc, junk>>

\* the next statement of thread t of node n is a Storage method: insert or
\* select_n_random_addresses for the Emitter (an iteration starts only while
\* the emission budget lasts), upsert or the selection for the Forwarder, the
\* snapshot of calculate_metrics for the harness
WantsTable(n, t) ==
  \/ t = "emitter" /\ epc[n] = "insert" /\ Emitted < MaxEmit
  \/ t = "emitter" /\ epc[n] = "select"
  \/ t = "forwarder" /\ fpc[n] \in {"upsert", "select"}
  \/ t = "harness"

\* the next statement of thread t of node n is channel.receive or channel.send
WantsChannel(n, t) ==
  \/ t = "emitter" /\ epc[n] = "send"
  \/ t = "forwarder" /\ fpc[n] \in {"receive", "send"}

\* Mutex::lock on the table: granted when no thread holds it
TableLock(n, t) ==
  /\ cs[n][t] = "out"
  /\ WantsTable(n, t)
  /\ tlock[n] = {}
  /\ tlock' = [tlock EXCEPT ![n] = @ \cup {t}]
  /\ cs' = [cs EXCEPT ![n][t] = "in"]
  /\ UNCHANGED <<clock, hsnap>>
  /\ Quiet

\* the guard of the table is dropped without ever being released
TableGuardLeaked(n, t) ==
  /\ cs[n][t] = "done"
  /\ t \in tlock[n]
  /\ cs' = [cs EXCEPT ![n][t] = "out"]
  /\ hsnap' = [hsnap EXCEPT ![n] = IF t = "harness" THEN {} ELSE @]
  /\ UNCHANGED <<tlock, clock>>
  /\ Quiet

\* the guard taken for the selection lives on into the send that follows it
TableGuardKept(n, t) ==
  /\ cs[n][t] = "done"
  /\ t \in tlock[n]
  /\ tlock' = [tlock EXCEPT ![n] =
                 IF (t = "emitter" /\ epc[n] = "send") \/ (t = "forwarder" /\ fpc[n] = "send")
                 THEN @ ELSE @ \ {t}]
  /\ cs' = [cs EXCEPT ![n][t] = "out"]
  /\ hsnap' = [hsnap EXCEPT ![n] = IF t = "harness" THEN {} ELSE @]
  /\ UNCHANGED clock
  /\ Quiet

\* the guard of the table goes out of scope: the method returns (the harness
\* drops its lock, main.rs:207, and goes on with the clone it took)
TableUnlock(n, t) ==
  /\ cs[n][t] = "done"
  /\ t \in tlock[n]
  /\ tlock' = [tlock EXCEPT ![n] = @ \ {t}]
  /\ cs' = [cs EXCEPT ![n][t] = "out"]
  /\ hsnap' = [hsnap EXCEPT ![n] = IF t = "harness" THEN {} ELSE @]
  /\ UNCHANGED clock
  /\ Quiet

\* Mutex::lock on the socket
ChannelLock(n, t) ==
  /\ cs[n][t] = "out"
  /\ WantsChannel(n, t)
  /\ clock[n] = {}
  /\ clock' = [clock EXCEPT ![n] = @ \cup {t}]
  /\ cs' = [cs EXCEPT ![n][t] = "in"]
  /\ UNCHANGED <<tlock, hsnap>>
  /\ Quiet

\* the guard of the socket is dropped without ever being released
ChannelGuardLeaked(n, t) ==
  /\ cs[n][t] = "done"
  /\ t \in clock[n]
  /\ cs' = [cs EXCEPT ![n][t] = "out"]
  /\ UNCHANGED <<tlock, clock, hsnap>>
  /\ Quiet

\* the guard of the socket goes out of scope
ChannelUnlock(n, t) ==
  /\ cs[n][t] = "done"
  /\ t \in clock[n]
  /\ clock' = [clock EXCEPT ![n] = @ \ {t}]
  /\ cs' = [cs EXCEPT ![n][t] = "out"]
  /\ UNCHANGED <<tlock, hsnap>>
  /\ Quiet

\* thread t of node n is inside the method, under the lock l
Inside(l, n, t) == t \in l[n] /\ cs[n][t] = "in"

\* a failed channel.receive is taken for Heartbeat::default() and merged
ForwarderReceiveErrorMerged(n) ==
  /\ fpc[n] = "receive"
  /\ \E e \in {"WouldBlock", "Io"} \cup (IF junk[n] THEN {"Serde"} ELSE {}) :
       /\ lastRecv' = e
       /\ junk' = [junk EXCEPT ![n] = IF e = "Serde" THEN FALSE ELSE @]
  /\ fhb' = [fhb EXCEPT ![n] = DefaultHeartbeat]
  /\ fpc' = [fpc EXCEPT ![n] = "upsert"]
  /\ cs' = Leave(n, "forwarder")
  /\ lastInsert' = NoInsert
  /\ lastSend' = NoSend
  /\ metrics' = NoMetrics
  /\ lastSelect' = NoSelect
  /\ UNCHANGED <<now, table, net, version, epc, ehb, eaddrs, ewake,
                 faddrs, maxInserted, tlock, clock, hsnap, is_alive, cpc>>

\* gossip.rs:354-361: channel.receive fails and the loop goes back to the top.
\* WouldBlock (no datagram has arrived yet) and an I/O error of recv_from can
\* come at any time; serde_json::from_slice fails on a datagram that is no
\* heartbeat, which recv_from has then taken off the socket.
ForwarderReceiveError(n) ==
  /\ fpc[n] = "receive"
  /\ \E e \in {"WouldBlock", "Io"} \cup (IF junk[n] THEN {"Serde"} ELSE {}) :
       /\ lastRecv' = e
       /\ junk' = [junk EXCEPT ![n] = IF e = "Serde" THEN FALSE ELSE @]
  /\ cs' = Leave(n, "forwarder")
  /\ lastInsert' = NoInsert
  /\ lastSend' = NoSend
  /\ metrics' = NoMetrics
  /\ lastSelect' = NoSelect
  /\ UNCHANGED <<now, table, net, version, epc, ehb, eaddrs, ewake,
                 fpc, fhb, faddrs, maxInserted, tlock, clock, hsnap, is_alive, cpc>>

\* a datagram that is no heartbeat arrives on the socket of node n
JunkArrives(n) ==
  /\ ~junk[n]
  /\ junk' = [junk EXCEPT ![n] = TRUE]
  /\ lastInsert' = NoInsert
  /\ lastRecv' = "none"
  /\ lastSend' = NoSend
  /\ metrics' = NoMetrics
  /\ lastSelect' = NoSelect
  /\ UNCHANGED <<now, table, net, version, epc, ehb, eaddrs, ewake,
                 fpc, fhb, faddrs, maxInserted, tlock, clock, cs, hsnap, is_alive, cpc>>

\* main.rs:198-207: calculate_metrics clones the table of node n under its lock
HarnessSnapshot(n) ==
  /\ hsnap' = [hsnap EXCEPT ![n] = {table[n]}]
  /\ cs' = Leave(n, "harness")
  /\ UNCHANGED <<tlock, clock>>
  /\ Quiet

LockNext ==
  \/ \E n \in Local : \E t \in Threads : TableLock(n, t)
  \/ \E n \in Local : \E t \in Threads : TableUnlock(n, t)
  \/ \E n \in Local : \E t \in Threads : ChannelLock(n, t)
  \/ \E n \in Local : \E t \in Threads : ChannelUnlock(n, t)
  \/ \E n \in Local : Inside(tlock, n, "emitter") /\ EmitterInsert(n)
  \/ \E n \in Local : Inside(tlock, n, "emitter") /\ EmitterSelect(n)
  \/ \E n \in Local : Inside(clock, n, "emitter") /\ EmitterSend(n)
  \/ \E n \in Local : cs[n]["emitter"] = "out" /\ EmitterWake(n)
  \/ \E n \in Local : Inside(clock, n, "forwarder") /\ ForwarderReceive(n)
  \/ \E n \in Local : Inside(clock, n, "forwarder") /\ ForwarderReceiveError(n)
  \/ \E n \in Local : Inside(tlock, n, "forwarder") /\ ForwarderUpsert(n)
  \/ \E n \in Local : Inside(tlock, n, "forwarder") /\ ForwarderSelect(n)
  \/ \E n \in Local : Inside(clock, n, "forwarder") /\ ForwarderSend(n)
  \/ \E n \in Local : Inside(tlock, n, "harness") /\ HarnessSnapshot(n)
  \/ \E n \in Local : JunkArrives(n)
  \/ \E p \in Nodes \ Local : PeerForward(p)
  \/ Tick

SpecLock == Init /\ [][LockNext]_vars

\* the statements of thread t of node n between taking a lock and giving it
\* back
ThreadStep(n, t) ==
  \/ TableUnlock(n, t)
  \/ ChannelUnlock(n, t)
  \/ t = "emitter" /\ Inside(tlock, n, t) /\ (EmitterInsert(n) \/ EmitterSelect(n))
  \/ t = "emitter" /\ Inside(clock, n, t) /\ EmitterSend(n)
  \/ t = "forwarder" /\ Inside(clock, n, t)
       /\ (ForwarderReceive(n) \/ ForwarderReceiveError(n) \/ ForwarderSend(n))
  \/ t = "forwarder" /\ Inside(tlock, n, t) /\ (ForwarderUpsert(n) \/ ForwarderSelect(n))
  \/ t = "harness" /\ Inside(tlock, n, t) /\ HarnessSnapshot(n)

\* fair scheduling: a thread that can run its next statement runs it in the
\* end, and a thread that asks for a lock which is free again and again gets
\* it in the end
Fairness ==
  \A n \in Local : \A t \in Threads :
    /\ WF_vars(ThreadStep(n, t))
    /\ SF_vars(TableLock(n, t))
    /\ SF_vars(ChannelLock(n, t))

FairSpecLock == SpecLock /\ Fairness

\* ------------------------------------------------------------------- claims
\* C1: for every node and every id, the timestamp stored under id never
\* decreases from one state to the next, whichever loop merges and whatever
\* the order, staleness or duplication of the datagrams.
MonotoneTimestamps ==
  [][\A n \in Nodes : \A id \in DOMAIN table[n] :
       id \in DOMAIN table'[n] =>
         table'[n][id].heartbeat.timestamp >= table[n][id].heartbeat.timestamp]_vars

\* a stale datagram has just been merged by the Forwarder: the entry existed
\* with a larger timestamp than the heartbeat received
StaleMerged ==
  /\ lastInsert.by = "forwarder"
  /\ \E e \in lastInsert.pre : lastInsert.h.timestamp < e.heartbeat.timestamp
  /\ \E e \in lastInsert.post : lastInsert.h.timestamp < e.heartbeat.timestamp

\* C2: an insert of h over an entry with a strictly smaller timestamp leaves
\* the entry holding h with received_count 1, and returns 1.
CountResetOnRefresh ==
  (/\ lastInsert.by # "none"
   /\ \E e \in lastInsert.pre : e.heartbeat.timestamp < lastInsert.h.timestamp)
  => /\ lastInsert.post = {NodeHeartbeatData(lastInsert.h, 1)}
     /\ lastInsert.ret = <<1>>

\* C3: an insert of h over an entry whose timestamp is at least h's leaves the
\* stored heartbeat as it was, adds exactly 1 to received_count and returns
\* the new received_count.
StaleIgnoredCountGrows ==
  \A e \in lastInsert.pre :
    (lastInsert.by # "none" /\ e.heartbeat.timestamp >= lastInsert.h.timestamp)
    => /\ lastInsert.post = {NodeHeartbeatData(e.heartbeat, e.received_count + 1)}
       /\ lastInsert.ret = <<e.received_count + 1>>

\* C4: an insert of h when the table has no entry under h.id creates the
\* entry with heartbeat h and received_count 1, and returns 1.
FirstInsertCountsOne ==
  (lastInsert.by # "none" /\ lastInsert.pre = {})
  => /\ lastInsert.post = {NodeHeartbeatData(lastInsert.h, 1)}
     /\ lastInsert.ret = <<1>>

\* C5: whenever the Forwarder is about to send, its destination list holds
\* neither the node's own address nor the address carried by the heartbeat
\* it forwards.
NoEcho ==
  \A n \in Nodes :
    fpc[n] = "send" =>
      /\ Addr[n] \notin Range(faddrs[n])
      /\ fhb[n].address \notin Range(faddrs[n])

\* C6: whenever the Emitter is about to send its self-heartbeat, the list of
\* selected addresses does not hold the node's own address.
NoSelfEcho ==
  \A n \in Nodes : epc[n] = "send" => Addr[n] \notin Range(eaddrs[n])

\* C7: on every send of the Emitter and of the Forwarder the destination list
\* has at most heartbeat_spread addresses, whatever the size of the table.
FanoutBound ==
  \A n \in Nodes :
    /\ epc[n] = "send" => Len(eaddrs[n]) <= HeartbeatSpread
    /\ fpc[n] = "send" => Len(faddrs[n]) <= HeartbeatSpread

\* a send is pending from a table that holds more entries than the spread,
\* and the list is full
FanoutCut ==
  \E n \in Nodes :
    /\ Cardinality(DOMAIN table[n]) > HeartbeatSpread
    /\ \/ epc[n] = "send" /\ Len(eaddrs[n]) = HeartbeatSpread
       \/ fpc[n] = "send" /\ Len(faddrs[n]) = HeartbeatSpread

\* C8: once a heartbeat for id has been inserted on a node, the node's table
\* holds under id a timestamp at least the largest timestamp inserted for id
\* so far, in every later state.
FreshestSeen ==
  \A n \in Nodes : \A id \in Nodes :
    maxInserted[n][id] >= 0 =>
      /\ id \in DOMAIN table[n]
      /\ table[n][id].heartbeat.timestamp >= maxInserted[n][id]

\* C9: every entry stored under a key holds a heartbeat whose id is that key,
\* from the table Node::new builds onwards.
KeyHeartbeatAgreement ==
  \A n \in Nodes : \A k \in DOMAIN table[n] : table[n][k].heartbeat.id = k

\* C10: every entry for which insert has been called at least once has
\* received_count >= 1; an entry with received_count 0 is one no insert has
\* been called for.
ReceivedCountLowerBound ==
  \A n \in Nodes : \A k \in DOMAIN table[n] :
    (k \in Nodes /\ maxInserted[n][k] >= 0) => table[n][k].received_count >= 1

\* C11: no Emitter or Forwarder thread ever holds the lock of the table and
\* the lock of the channel together: the table's is released before the
\* channel's is taken.
LockDiscipline ==
  \A n \in Nodes : \A t \in {"emitter", "forwarder"} :
    ~(t \in tlock[n] /\ t \in clock[n])

\* a loop is inside channel.send, holding the socket, after its Storage calls
CrossedToChannel ==
  \E n \in Nodes :
    \/ Inside(clock, n, "emitter") /\ epc[n] = "send"
    \/ Inside(clock, n, "forwarder") /\ fpc[n] = "send"

\* thread t of node n is in a thread::sleep: the Emitter after a send that
\* went well, the Forwarder at the top of its loop, the harness between two
\* rounds of metrics
Sleeping(n, t) ==
  \/ t = "emitter" /\ epc[n] = "sleep"
  \/ t = "forwarder" /\ fpc[n] = "receive" /\ cs[n][t] = "out"
  \/ t = "harness" /\ cs[n][t] = "out"

\* thread t of node n is inside channel.send
Sending(n, t) ==
  \/ t = "emitter" /\ epc[n] = "send" /\ Inside(clock, n, t)
  \/ t = "forwarder" /\ fpc[n] = "send" /\ Inside(clock, n, t)

\* C12: no thread holds the lock of a table while it sends on the network or
\* while it sleeps.
ShortCriticalSections ==
  \A n \in Nodes : \A t \in Threads :
    (Sleeping(n, t) \/ Sending(n, t)) => t \notin tlock[n]

\* one loop is sending while another thread is at work under the table's lock
TableBusyMeanwhile ==
  \E n \in Nodes : \E t \in {"emitter", "forwarder"} :
    /\ Sending(n, t)
    /\ \E u \in Threads \ {t} : Inside(tlock, n, u)

\* C13: the key set of every table only grows from one state to the next,
\* and the node's own entry and its seed entries are there at all times.
KeysOnlyGrow ==
  [][\A n \in Nodes :
       /\ n \in DOMAIN table[n]
       /\ Range(Seeds[n]) \subseteq DOMAIN table[n]
       /\ DOMAIN table[n] \subseteq DOMAIN table'[n]]_vars

\* the Emitter has inserted its heartbeat and the table has gained a key
\* since Node::new
KeyGained ==
  \E n \in Nodes :
    /\ version[n] >= 1
    /\ DOMAIN table[n] # DOMAIN NodeNew(n, Addr[n], Seeds[n])

\* every Emitter has finished an iteration with a send that went well, every
\* datagram sent has been received and merged, and no Forwarder is at work
Settled ==
  /\ \A n \in Nodes : version[n] >= 1 /\ epc[n] = "sleep" /\ fpc[n] = "receive"
  /\ net = {}

\* the table of node n holds under id a heartbeat built by id's Emitter
\* (Node::new's entries carry version 0, periodic_heartbeat starts at 1)
HoldsEmitted(n, id) ==
  /\ id \in DOMAIN table[n]
  /\ table[n][id].heartbeat.id = id
  /\ table[n][id].heartbeat.version >= 1

EmitterResetsOwnCount ==
  lastInsert.by = "emitter" =>
    lastInsert.post = {NodeHeartbeatData(lastInsert.h, 1)}

\* C16: the inserts of the Emitter and of the Forwarder and the snapshots of
\* the harness on one node happen one at a time under the table's lock: at
\* most one thread is in the table, each stale insert (no newer than the
\* entry) adds exactly 1 to received_count, so that k of them add k, and a
\* snapshot is the table as some whole number of inserts left it.
AtomicInserts ==
  /\ \A n \in Nodes : Cardinality(tlock[n]) <= 1
  /\ \A n \in Nodes : hsnap[n] # {} => hsnap[n] = {table[n]}
  /\ \A e \in lastInsert.pre :
       (lastInsert.by # "none" /\ lastInsert.h.timestamp <= e.heartbeat.timestamp)
       => \E f \in lastInsert.post : f.received_count = e.received_count + 1

\* thread t of node n is at a lock() call
AsksLock(n, t) == cs[n][t] = "out" /\ (WantsTable(n, t) \/ WantsChannel(n, t))

\* thread t of node n is between two iterations of its loop
AtLoopTop(n, t) ==
  /\ cs[n][t] = "out"
  /\ t = "emitter" => epc[n] \in {"insert", "sleep"}
  /\ t = "forwarder" => fpc[n] = "receive"

ReceiveErrorsContained ==
  [][lastRecv' # "none" =>
       /\ table' = table
       /\ net' \subseteq net
       /\ \E n \in Nodes :
            /\ Inside(clock, n, "forwarder")
            /\ fpc'[n] = "receive" /\ fhb'[n] = NoHeartbeat /\ faddrs'[n] = <<>>
            /\ cs'[n]["forwarder"] = "done"]_vars

\* the Forwarder has just dropped a datagram that did not decode
DecodeFailed == lastRecv = "Serde"

\* the addresses that a datagram of the last send went to
Reached == {d[1] : d \in net}

\* C19 as the specification has it: when send fails on one address of the
\* list, every address after it still gets the datagram.
BestEffortBatch ==
  (lastSend.by # "none" /\ ~lastSend.ok) =>
    \A i \in (lastSend.sent + 2)..Len(lastSend.targets) :
      lastSend.targets[i] \in Reached

\* C19 as the code has it: send returns on the first address that fails; the
\* addresses before it have got the datagram, the failing one and the ones
\* after it get none from this call.
FirstFailureEndsBatch ==
  (lastSend.by # "none" /\ ~lastSend.ok) =>
    /\ lastSend.sent < Len(lastSend.targets)
    /\ Reached = {lastSend.targets[i] : i \in 1..lastSend.sent}

\* a send has failed after its first datagram, with an address still to go
\* that none of the datagrams sent has reached
FailedMidBatch ==
  /\ lastSend.by # "none" /\ ~lastSend.ok
  /\ lastSend.sent >= 1
  /\ \E i \in (lastSend.sent + 2)..Len(lastSend.targets) :
       lastSend.targets[i] \notin Reached

\* node n puts a datagram on the network in this step
Sends(n) ==
  /\ \/ epc[n] = "send" /\ epc'[n] # "send"
     \/ fpc[n] = "send" /\ fpc'[n] # "send"
  /\ net' # net

\* C20: while the is_alive flag of a node is false, neither its Emitter nor
\* its Forwarder sends a datagram.
SilentWhileDead ==
  [][\A n \in Nodes : (~is_alive[n] /\ ~is_alive'[n]) => ~Sends(n)]_vars

\* the snapshot holds an entry for node id: one that carries its id, or at
\* least its address
KnowsNode(snapshot, id) ==
  \E k \in DOMAIN snapshot :
    snapshot[k].heartbeat.id = id \/ snapshot[k].heartbeat.address = Addr[id]

\* the snapshot holds an entry for every configured node and every entry of
\* it was stamped less than the healthy threshold before the second `at`
InformedAt(snapshot, at) ==
  /\ \A id \in Nodes : KnowsNode(snapshot, id)
  /\ \A k \in DOMAIN snapshot :
       at - snapshot[k].heartbeat.timestamp < HealthyThresholdSecs

\* C21: the fully_informed that calculate_metrics reports is the number of
\* nodes whose snapshot holds an entry for every configured node with every
\* entry's timestamp within the healthy threshold of now.
FullyInformedMetric ==
  metrics.by # "none" =>
    metrics.n_fully_informed =
      Cardinality({n \in DOMAIN metrics.snapshots :
                     InformedAt(metrics.snapshots[n], metrics.at)})

\* the entry under key k of node n's snapshot is a seed's entry as Node::new
\* made it: no heartbeat has been merged into it
BootstrapSeed(n, snapshot, k) ==
  /\ k \in Range(Seeds[n])
  /\ snapshot[k].received_count = 0
  /\ snapshot[k].heartbeat.version = 0

\* C22: a seed's entry into which no heartbeat has been inserted yet is never
\* among the entries calculate_metrics counts as fresh, so it adds nothing to
\* a node being fully informed.
SeedsNotCounted ==
  metrics.by # "none" =>
    \A n \in DOMAIN metrics.snapshots : \A k \in DOMAIN metrics.snapshots[n] :
      BootstrapSeed(n, metrics.snapshots[n], k) => k \notin metrics.latest[n]

\* C23: the list select_n_random_addresses returns holds no address twice,
\* whatever the table, the table after a seed's first heartbeat included.
DistinctDestinations ==
  lastSelect.by # "none" =>
    \A i, j \in DOMAIN lastSelect.addresses :
      i # j => lastSelect.addresses[i] # lastSelect.addresses[j]

====
